---------------------------- MODULE Spec2Model ----------------------------
(***************************************************************************)
(* A model of the Streamlit data-quality dashboard: the analysis engine   *)
(* of utils.py (validator, preprocessor, quality checks, statistics) and  *)
(* the upload script of app.py that drives it.                            *)
(*                                                                         *)
(* A dataframe is a record [index, cols]: index is the sequence of row    *)
(* labels, cols the sequence of columns in column order, each column a    *)
(* record [name, dtype, vals].  A cell is a record [k, n, d]: k is the     *)
(* kind of value ("num" a finite number n/d in lowest terms, "inf" a      *)
(* signed infinity, "nan" a missing value, "str" a text with code n,      *)
(* "dt" a timestamp n).  Numbers are exact rationals: floating-point      *)
(* rounding is not modelled.                                               *)
(***************************************************************************)
EXTENDS Integers, Sequences, FiniteSets, TLC

VARIABLES
    raw,        \* app.py: the uploaded file's table (None when unreadable)
    df,         \* the caller's dataframe variable
    pc,         \* position in the script / phase of the caller
    log,        \* the utils functions invoked so far, in order
    shown,      \* messages surfaced with st.error
    column,     \* app.py: the column chosen in the selectbox
    call,       \* the last engine call: function and arguments
    result,     \* what the last engine call returned
    before,     \* the caller's dataframe as it was before the last call
    valid       \* app.py: (is_valid, message) of validate_dataframe

vars == <<raw, df, pc, log, shown, column, call, result, before, valid>>

None == [k |-> "none", n |-> 0, d |-> 1]

----------------------------------------------------------------------------
(* Bounds of the model *)

MaxUploadRows == 2
MaxRows == 3
OutlierRows == 4
MaxDate == 2
MaxPreprocessCalls == 2
DayUnits == 2

----------------------------------------------------------------------------
(* Cells and exact arithmetic *)

AbsInt(x) == IF x < 0 THEN -x ELSE x

RECURSIVE Gcd(_, _)
Gcd(a, b) == IF b = 0 THEN a ELSE Gcd(b, a % b)

Rat(n, d) ==
    LET s == IF d < 0 THEN -1 ELSE 1
        g == Gcd(AbsInt(n), AbsInt(d))
    IN  [k |-> "num", n |-> (s * n) \div g, d |-> (s * d) \div g]

Num(n) == [k |-> "num", n |-> n, d |-> 1]
NaN == [k |-> "nan", n |-> 0, d |-> 1]
Inf(s) == [k |-> "inf", n |-> s, d |-> 1]
Str(code) == [k |-> "str", n |-> code, d |-> 1]
Dt(t) == [k |-> "dt", n |-> t, d |-> 1]

IsNull(x) == x.k = "nan"

Sign(x) == IF x.n > 0 THEN 1 ELSE IF x.n < 0 THEN -1 ELSE 0

\* a - b on finite numbers
RSub(a, b) == Rat(a.n * b.d - b.n * a.d, a.d * b.d)
RAdd(a, b) == Rat(a.n * b.d + b.n * a.d, a.d * b.d)
RMul(a, b) == Rat(a.n * b.n, a.d * b.d)

\* a < b on cells: a comparison with a missing value is false
Less(a, b) ==
    CASE a.k = "nan" \/ b.k = "nan" -> FALSE
      [] a.k = "inf" /\ b.k = "inf" -> a.n < b.n
      [] a.k = "inf" -> a.n < 0
      [] b.k = "inf" -> b.n > 0
      [] OTHER -> a.n * b.d < b.n * a.d

\* a / b with the floating-point results for a zero divisor
FDiv(a, b) ==
    CASE a.k = "nan" \/ b.k = "nan" -> NaN
      [] a.k = "inf" /\ b.k = "inf" -> NaN
      [] a.k = "inf" -> Inf(IF b.n < 0 THEN -a.n ELSE a.n)
      [] b.k = "inf" -> Num(0)
      [] b.n = 0 -> IF a.n = 0 THEN NaN ELSE Inf(Sign(a))
      [] OTHER -> Rat(a.n * b.d, a.d * b.n)

FSub(a, b) ==
    CASE a.k = "nan" \/ b.k = "nan" -> NaN
      [] a.k = "inf" /\ b.k = "inf" -> IF a.n = b.n THEN NaN ELSE a
      [] a.k = "inf" -> a
      [] b.k = "inf" -> Inf(-b.n)
      [] OTHER -> RSub(a, b)

FAbs(a) ==
    CASE a.k = "nan" -> NaN
      [] a.k = "inf" -> Inf(1)
      [] OTHER -> Rat(AbsInt(a.n), a.d)

----------------------------------------------------------------------------
(* Dataframes *)

Range(s) == {s[i] : i \in DOMAIN s}

NRows(t) == Len(t.index)

Columns(t) == {t.cols[j].name : j \in DOMAIN t.cols}

ColIdx(t, c) == CHOOSE j \in DOMAIN t.cols : t.cols[j].name = c

Values(t, c) == t.cols[ColIdx(t, c)].vals

RangeIndex(n) == [i \in 1..n |-> i - 1]

\* df[mask] and df.iloc[p]: the rows at positions p, in that order
TakeRows(t, p) ==
    [index |-> [i \in 1..Len(p) |-> t.index[p[i]]],
     cols |-> [j \in DOMAIN t.cols |->
                 [name |-> t.cols[j].name,
                  dtype |-> t.cols[j].dtype,
                  vals |-> [i \in 1..Len(p) |-> t.cols[j].vals[p[i]]]]]]

\* df[c] = vals: replaces the column c, or appends it as the last column
SetColumn(t, c, dtype, vals) ==
    LET col == [name |-> c, dtype |-> dtype, vals |-> vals]
    IN  IF c \in Columns(t)
        THEN [t EXCEPT !.cols[ColIdx(t, c)] = col]
        ELSE [t EXCEPT !.cols = Append(t.cols, col)]

\* df[[c1, c2, ...]]
SelectColumns(t, cs) ==
    [index |-> t.index,
     cols |-> [j \in DOMAIN cs |-> t.cols[ColIdx(t, cs[j])]]]

\* the positions at which mask is true, in increasing order
RECURSIVE Where(_, _)
Where(mask, i) ==
    IF i > Len(mask) THEN <<>>
    ELSE (IF mask[i] THEN <<i>> ELSE <<>>) \o Where(mask, i + 1)

EmptyFrame == [index |-> <<>>, cols |-> <<>>]

\* sort order of keys: missing values last (na_position='last')
KeyLE(a, b) == IsNull(b) \/ (~IsNull(a) /\ ~Less(b, a))

RECURSIVE OrdersOf(_, _)
OrdersOf(keys, S) ==
    IF S = {} THEN {<<>>}
    ELSE UNION {{<<i>> \o r : r \in OrdersOf(keys, S \ {i})} :
                  i \in {i \in S : \A j \in S : KeyLE(keys[i], keys[j])}}

\* the order a stable sort gives: equal keys stay in their input order
RECURSIVE StableOrderOf(_, _)
StableOrderOf(keys, S) ==
    IF S = {} THEN <<>>
    ELSE LET i == CHOOSE i \in S : \A j \in S :
                      /\ KeyLE(keys[i], keys[j])
                      /\ (KeyLE(keys[j], keys[i]) => i <= j)
         IN  <<i>> \o StableOrderOf(keys, S \ {i})

\* Series.argsort as sort_values(kind='quicksort') uses it: quicksort is not a
\* stable sort, so rows with equal keys may come out in any order
SortOrders(keys) == OrdersOf(keys, DOMAIN keys)

\* df.sort_values(c): every table the sort may return
SortValues(t, c) == {TakeRows(t, p) : p \in SortOrders(Values(t, c))}

----------------------------------------------------------------------------
(* Results: a str, a DataFrame or a dict *)

StrResult(text, c, thr) ==
    [type |-> "str", text |-> text, column |-> c, threshold |-> thr,
     frame |-> EmptyFrame, entries |-> <<>>]

FrameResult(t) ==
    [type |-> "DataFrame", text |-> "", column |-> "", threshold |-> 0,
     frame |-> t, entries |-> <<>>]

\* a DataFrame or dict given by its labelled entries
EntriesResult(type, es) ==
    [type |-> type, text |-> "", column |-> "", threshold |-> 0,
     frame |-> EmptyFrame, entries |-> es]

Entry(name, a, b) == [name |-> name, a |-> a, b |-> b]

Bool(b) == [k |-> "bool", n |-> IF b THEN 1 ELSE 0, d |-> 1]

NoResult == StrResult("", "", 0)

----------------------------------------------------------------------------
(* utils.py: the analysis engine *)

NullCount(vals) == Cardinality({i \in DOMAIN vals : IsNull(vals[i])})

\* round(x, 2) of a finite number, half to even, as a number of hundredths
Round2(x) ==
    LET num == x.n * 100
        f == num \div x.d
        r == num % x.d
        up == 2 * r > x.d \/ (2 * r = x.d /\ f % 2 = 1)
    IN  Rat(IF up THEN f + 1 ELSE f, 100)

\* check_missing(df): one row per column that has missing values
check_missing(t) ==
    LET entry(j) ==
            LET missing == NullCount(t.cols[j].vals)
                pct == FDiv(Num(missing * 100), Num(NRows(t)))
            IN  Entry(t.cols[j].name, Num(missing),
                      IF pct.k = "num" THEN Round2(pct) ELSE pct)
        all == [j \in DOMAIN t.cols |-> entry(j)]
        keep == Where([j \in DOMAIN t.cols |-> all[j].a.n > 0], 1)
    IN  EntriesResult("DataFrame", [i \in DOMAIN keep |-> all[keep[i]]])

\* duplicated with keep='first': the first row of each Date is not marked
DuplicatedKeepFirst(vals) ==
    [i \in DOMAIN vals |-> \E j \in 1..(i - 1) : vals[j] = vals[i]]

\* df.duplicated(subset=['Date'], keep=False): every row whose Date occurs
\* in another row as well
DuplicatedKeepAll(vals) ==
    [i \in DOMAIN vals |-> \E j \in DOMAIN vals : j # i /\ vals[j] = vals[i]]

\* detect_duplicates(df): every result the call may return
detect_duplicates(t) ==
    IF "Date" \notin Columns(t)
    THEN {StrResult("No 'Date' column found in the dataframe", "", 0)}
    ELSE LET duplicates ==
                 TakeRows(t, Where(DuplicatedKeepAll(Values(t, "Date")), 1))
         IN  IF NRows(duplicates) = 0
             THEN {StrResult("No duplicate dates found", "", 0)}
             ELSE {FrameResult(s) : s \in SortValues(duplicates, "Date")}

\* the k-th smallest (k = 1..n) of the non-missing values
KthSmallest(vals, k) ==
    LET S == {i \in DOMAIN vals : ~IsNull(vals[i])}
    IN  vals[CHOOSE i \in S :
                 /\ Cardinality({j \in S : Less(vals[j], vals[i])}) < k
                 /\ Cardinality({j \in S : ~Less(vals[i], vals[j])}) >= k]

\* Series.quantile(q4 / 4): linear interpolation between the closest ranks
Quantile(vals, q4) ==
    LET n == Cardinality({i \in DOMAIN vals : ~IsNull(vals[i])})
        h == (n - 1) * q4
        lo == KthSmallest(vals, h \div 4 + 1)
    IN  IF n = 0 THEN NaN
        ELSE IF h % 4 = 0 THEN lo
        ELSE RAdd(lo, RMul(Rat(h % 4, 4),
                           RSub(KthSmallest(vals, h \div 4 + 2), lo)))

\* the multiplier 1.5 of utils.py, in tenths
IqrMultiplierTenths == 15

\* the rows outside [Q1 - m * IQR, Q3 + m * IQR], m in tenths
OutlierMask(vals, m10) ==
    LET Q1 == Quantile(vals, 1)
        Q3 == Quantile(vals, 3)
        IQR == FSub(Q3, Q1)
        width == IF IQR.k = "num" THEN RMul(Rat(m10, 10), IQR) ELSE IQR
        lower_bound == FSub(Q1, width)
        upper_bound == IF width.k = "num" THEN RAdd(Q3, width) ELSE width
    IN  [i \in DOMAIN vals |->
            Less(vals[i], lower_bound) \/ Less(upper_bound, vals[i])]

\* detect_outliers(df, column)
detect_outliers(t, c) ==
    IF c \notin Columns(t)
    THEN StrResult("Column not found in dataframe", c, 0)
    ELSE LET outliers ==
                 TakeRows(t, Where(OutlierMask(Values(t, c),
                                               IqrMultiplierTenths), 1))
         IN  IF NRows(outliers) = 0
             THEN StrResult("No outliers found in column", c, 0)
             ELSE FrameResult(outliers)

\* Series.pct_change(): value[i] / value[i-1] - 1, missing in the first row
PctChange(vals) ==
    [i \in DOMAIN vals |->
        IF i = 1 THEN NaN ELSE FSub(FDiv(vals[i], vals[i - 1]), Num(1))]

\* abs(pct) >= threshold
JumpMaskNonStrict(pct, thr) ==
    [i \in DOMAIN pct |->
        Less(Rat(thr, 100), FAbs(pct[i])) \/ FAbs(pct[i]) = Rat(thr, 100)]

\* abs(pct) > threshold, the threshold in hundredths
JumpMask(pct, thr) ==
    [i \in DOMAIN pct |-> Less(Rat(thr, 100), FAbs(pct[i]))]

\* detect_jumps: the caller's dataframe after the call (df['pct_change'] = ...
\* assigns into the dataframe that was passed in)
detect_jumps_df(t, c) ==
    IF c \notin Columns(t) THEN t
    ELSE SetColumn(t, "pct_change", "number", PctChange(Values(t, c)))

\* detect_jumps(df, column, threshold): every result the call may return
detect_jumps(t, c, thr) ==
    IF c \notin Columns(t)
    THEN {StrResult("Column not found in dataframe", c, 0)}
    ELSE LET d2 == detect_jumps_df(t, c)
             jumps == TakeRows(d2, Where(JumpMask(Values(d2, "pct_change"),
                                                  thr), 1))
         IN  IF NRows(jumps) = 0
             THEN {StrResult("No significant price jumps detected in column",
                             c, thr)}
             ELSE {FrameResult(s) :
                     s \in SortValues(
                             SelectColumns(jumps, <<"Date", c, "pct_change">>),
                             "Date")}

\* pd.to_datetime of one value: a text names a day (code 0: not a date), a
\* number counts time units since the epoch, a timestamp stays as it is
Parseable(x) == x.k # "str" \/ x.n > 0

ToDatetime(x) ==
    CASE x.k = "str" -> Dt(x.n * DayUnits)
      [] x.k = "num" -> Dt(x.n)
      [] OTHER -> x

\* pd.to_datetime(series) raises unless every value parses
ToDatetimeRaises(vals) == \E i \in DOMAIN vals : ~Parseable(vals[i])

\* df.select_dtypes(include=[np.number]).columns
NumericColumns(t) ==
    {t.cols[j].name : j \in {j \in DOMAIN t.cols : t.cols[j].dtype = "number"}}

\* df.empty: no rows or no columns
IsEmpty(t) == NRows(t) = 0 \/ Len(t.cols) = 0

\* validate_dataframe(df) -> (ok, message)
validate_dataframe(t) ==
    IF IsEmpty(t)
    THEN <<FALSE, "The uploaded file is empty">>
    ELSE IF "Date" \notin Columns(t)
    THEN <<FALSE, "The file must contain a 'Date' column">>
    ELSE IF ToDatetimeRaises(Values(t, "Date"))
    THEN <<FALSE, "The 'Date' column contains invalid date formats">>
    ELSE IF NumericColumns(t) = {}
    THEN <<FALSE, "The file must contain at least one numeric column">>
    ELSE <<TRUE, "Data validation successful">>

\* preprocess_data raises when Date is missing or does not parse
preprocess_raises(t) ==
    "Date" \notin Columns(t) \/ ToDatetimeRaises(Values(t, "Date"))

\* df.reset_index(drop=True)
ResetIndex(t) == [t EXCEPT !.index = RangeIndex(NRows(t))]

\* df["Date"] = pd.to_datetime(df["Date"])
ParseDates(t) ==
    LET dates == Values(t, "Date")
    IN  SetColumn(t, "Date", "datetime",
                  [i \in DOMAIN dates |-> ToDatetime(dates[i])])

\* preprocess_data(df): every table the call may return; it works on a copy
preprocess_data(t) ==
    {ResetIndex(s) : s \in SortValues(ParseDates(t), "Date")}

\* sum of f over the positions lo..hi of a column of whole numbers
RECURSIVE SumPow(_, _, _, _, _)
SumPow(vals, lo, hi, shift, pow) ==
    IF lo > hi THEN 0
    ELSE (vals[lo].n * shift.d - shift.n) ^ pow
         + SumPow(vals, lo + 1, hi, shift, pow)

Zero == Num(0)

\* the central moment sum S_p = sum (n * x - sum x)^p over rows lo..hi
Moment(vals, lo, hi, p) ==
    LET n == hi - lo + 1
        total == SumPow(vals, lo, hi, Zero, 1)
    IN  SumPow(vals, lo, hi, [k |-> "num", n |-> total, d |-> n], p)

\* the sample standard deviation (ddof = 1) of rows lo..hi, kept as the
\* variance under the root: sqrt(S_2 / (n^2 (n - 1)))
SampleStd(vals, lo, hi) ==
    LET n == hi - lo + 1
        v == Rat(Moment(vals, lo, hi, 2), n * n * (n - 1))
    IN  IF n < 2 THEN NaN ELSE [v EXCEPT !.k = "sqrt"]

Mean(vals, lo, hi) ==
    IF hi < lo THEN NaN
    ELSE Rat(SumPow(vals, lo, hi, Zero, 1), hi - lo + 1)

\* skew() and kurtosis() are functions of n and of the moment sums; they are
\* kept as the pair (S_p, S_2), missing below 3 and 4 values
MomentRatio(vals, p) ==
    IF Len(vals) < p THEN NaN
    ELSE [k |-> "moments", n |-> Moment(vals, 1, Len(vals), p),
          d |-> Moment(vals, 1, Len(vals), 2)]

\* analyze_data_distribution(df, column), on a column of whole numbers
analyze_data_distribution(t, c) ==
    IF c \notin Columns(t)
    THEN EntriesResult("dict", <<Entry("error", Str(0), None)>>)
    ELSE LET vals == Values(t, c)
             n == Len(vals)
         IN  EntriesResult("dict", <<
                 Entry("mean", Mean(vals, 1, n), None),
                 Entry("median", Quantile(vals, 2), None),
                 Entry("std", SampleStd(vals, 1, n), None),
                 Entry("min", IF n = 0 THEN NaN ELSE KthSmallest(vals, 1), None),
                 Entry("max", IF n = 0 THEN NaN ELSE KthSmallest(vals, n), None),
                 Entry("skewness", MomentRatio(vals, 3), None),
                 Entry("kurtosis", MomentRatio(vals, 4), None)>>)

Upward == Str(1)
Downward == Str(0)

\* detect_trends(df, column, window), on a column of whole numbers
detect_trends(t, c, window) ==
    IF c \notin Columns(t)
    THEN EntriesResult("DataFrame", <<Entry("error", Str(0), None)>>)
    ELSE LET vals == Values(t, c)
             full(i) == i >= window
             MA == [i \in DOMAIN vals |->
                      IF full(i) THEN Mean(vals, i - window + 1, i) ELSE NaN]
             MA_std == [i \in DOMAIN vals |->
                      IF full(i) THEN SampleStd(vals, i - window + 1, i)
                      ELSE NaN]
             Trend == [i \in DOMAIN vals |->
                      IF i > 1 /\ Less(MA[i - 1], MA[i])
                      THEN Upward ELSE Downward]
             d2 == SetColumn(SetColumn(SetColumn(t,
                       "MA", "number", MA),
                       "MA_std", "number", MA_std),
                       "Trend", "object", Trend)
             sel == SelectColumns(d2, <<"Date", c, "MA", "MA_std", "Trend">>)
             complete == [i \in DOMAIN vals |->
                      \A j \in DOMAIN sel.cols : ~IsNull(sel.cols[j].vals[i])]
         IN  FrameResult(TakeRows(sel, Where(complete, 1)))

\* check_data_consistency(df, column)
check_data_consistency(t, c) ==
    IF c \notin Columns(t)
    THEN EntriesResult("dict", <<Entry("error", Str(0), None)>>)
    ELSE LET vals == Values(t, c)
             S == {i \in DOMAIN vals : ~IsNull(vals[i])}
         IN  EntriesResult("dict", <<
                 Entry("zero_values",
                       Num(Cardinality({i \in S : vals[i] = Zero})), None),
                 Entry("negative_values",
                       Num(Cardinality({i \in S : Less(vals[i], Zero)})), None),
                 Entry("constant_values",
                       Bool(Cardinality({vals[i] : i \in S}) = 1), None),
                 Entry("gaps", Num(NullCount(vals)), None)>>)

----------------------------------------------------------------------------
(* Inputs *)

Prices == {0, 10, 11}

Notes == {Str(1), NaN}

Seqs(S, n) == [1..n -> S]

Col(name, dtype, vals) == [name |-> name, dtype |-> dtype, vals |-> vals]

\* the columns read_csv may build from n records: a Date column of day texts
\* (text 0 is not a date) or of whole numbers, a Close column of numbers, a
\* Note column of texts with gaps.  A column without rows has dtype object.
NumberDtype(n) == IF n = 0 THEN "object" ELSE "number"

DateTextCols(n, texts) ==
    {<<Col("Date", "object", [i \in 1..n |-> Str(v[i])])>> :
        v \in Seqs(texts, n)}

DateNumberCols(n) ==
    {<<Col("Date", NumberDtype(n), [i \in 1..n |-> Num(v[i])])>> :
        v \in Seqs(1..MaxDate, n)}

CloseCols(n) ==
    {<<Col("Close", NumberDtype(n), [i \in 1..n |-> Num(v[i])])>> :
        v \in Seqs(Prices, n)}

NoteCols(n) == {<<Col("Note", "object", v)>> : v \in Seqs(Notes, n)}

Frame(n, d, c, x) == [index |-> RangeIndex(n), cols |-> d \o c \o x]

\* what read_csv makes of a file of n records: each column is there or not
UploadDateCols(n) ==
    {<<>>} \cup DateTextCols(n, 0..MaxDate) \cup DateNumberCols(n)

UploadCloseCols(n) == {<<>>} \cup CloseCols(n)

UploadNoteCols(n) == {<<>>} \cup NoteCols(n)

\* the user uploads a file of up to MaxUploadRows records
Upload(t) ==
    \E n \in 0..MaxUploadRows :
        \E d \in UploadDateCols(n), c \in UploadCloseCols(n),
           x \in UploadNoteCols(n) :
            t = Frame(n, d, c, x)

\* the values of the moving-average slider the model draws
MaWindows == {5, 30}

----------------------------------------------------------------------------
(* app.py: one run of the script on an uploaded file *)

AnalysisFns ==
    {"check_missing", "detect_duplicates", "detect_outliers", "detect_jumps",
     "check_data_consistency", "analyze_data_distribution", "detect_trends"}

NoCall == [fn |-> "", column |-> "", arg |-> 0]

InitApp ==
    /\ Upload(raw)
    /\ df = EmptyFrame
    /\ pc = "read"
    /\ log = <<>>
    /\ shown = <<>>
    /\ column = ""
    /\ call = NoCall
    /\ result = NoResult
    /\ before = EmptyFrame
    /\ valid = <<FALSE, "">>

\* except Exception as e: st.error(...); st.stop()
Raise ==
    /\ shown' = Append(shown, "An error occurred")
    /\ pc' = "stopped"

\* df = pd.read_csv(uploaded_file): a file without columns raises
ReadCsv ==
    /\ pc = "read"
    /\ IF Len(raw.cols) = 0
       THEN Raise /\ UNCHANGED df
       ELSE df' = raw /\ pc' = "validate" /\ UNCHANGED shown
    /\ UNCHANGED <<raw, log, column, call, result, before, valid>>

\* the script without its st.stop() after a failed validation
AfterValidateNoStop(ok) == "preprocess"

\* if not is_valid: st.error(message); st.stop()
AfterValidate(ok) == IF ok THEN "preprocess" ELSE "stopped"

Validate ==
    /\ pc = "validate"
    /\ valid' = validate_dataframe(df)
    /\ log' = Append(log, "validate_dataframe")
    /\ shown' = IF valid'[1] THEN shown ELSE Append(shown, valid'[2])
    /\ pc' = AfterValidate(valid'[1])
    /\ UNCHANGED <<raw, df, column, call, result, before>>

\* df = preprocess_data(df)
Preprocess ==
    /\ pc = "preprocess"
    /\ log' = Append(log, "preprocess_data")
    /\ IF preprocess_raises(df)
       THEN Raise /\ UNCHANGED df
       ELSE /\ df' \in preprocess_data(df)
            /\ pc' = "missing"
            /\ UNCHANGED shown
    /\ UNCHANGED <<raw, column, call, result, before, valid>>

\* one call of an engine function from the script, and the next position
Invoke(fn, c, arg, r, next) ==
    /\ log' = Append(log, fn)
    /\ call' = [fn |-> fn, column |-> c, arg |-> arg]
    /\ result' = r
    /\ pc' = next

\* missing_data = check_missing(df)
AppCheckMissing ==
    /\ pc = "missing"
    /\ Invoke("check_missing", "", 0, check_missing(df), "duplicates")
    /\ UNCHANGED <<raw, df, shown, column, before, valid>>

\* duplicates = detect_duplicates(df)
AppDetectDuplicates ==
    /\ pc = "duplicates"
    /\ \E r \in detect_duplicates(df) :
           Invoke("detect_duplicates", "", 0, r, "select")
    /\ UNCHANGED <<raw, df, shown, column, before, valid>>

\* column = st.selectbox(..., numeric columns): None when there is none
SelectColumn ==
    /\ pc = "select"
    /\ IF NumericColumns(df) = {}
       THEN column' = "None"
       ELSE column' \in NumericColumns(df)
    /\ pc' = "outliers"
    /\ UNCHANGED <<raw, df, log, shown, call, result, before, valid>>

\* outliers = detect_outliers(df, column)
AppDetectOutliers ==
    /\ pc = "outliers"
    /\ Invoke("detect_outliers", column, 0, detect_outliers(df, column),
              "consistency")
    /\ UNCHANGED <<raw, df, shown, column, before, valid>>

IsError(r) == r.entries # <<>> /\ r.entries[1].name = "error"

\* st.error(r["error"]) when the result says the column was not found
ShowError(r) ==
    shown' = IF IsError(r) THEN Append(shown, "Column not found in dataframe")
             ELSE shown

\* consistency = check_data_consistency(df, column)
AppCheckConsistency ==
    /\ pc = "consistency"
    /\ Invoke("check_data_consistency", column, 0,
              check_data_consistency(df, column), "distribution")
    /\ ShowError(result')
    /\ UNCHANGED <<raw, df, column, before, valid>>

\* dist_stats = analyze_data_distribution(df, column)
AppAnalyzeDistribution ==
    /\ pc = "distribution"
    /\ Invoke("analyze_data_distribution", column, 0,
              analyze_data_distribution(df, column), "trends")
    /\ ShowError(result')
    /\ UNCHANGED <<raw, df, column, before, valid>>

\* trends = detect_trends(df, column, window=ma_window)
AppDetectTrends ==
    /\ pc = "trends"
    /\ \E ma_window \in MaWindows :
           Invoke("detect_trends", column, ma_window,
                  detect_trends(df, column, ma_window), "export")
    /\ ShowError(result')
    /\ UNCHANGED <<raw, df, column, before, valid>>

\* the export tab: the report button, when pressed, calls check_missing and
\* analyze_data_distribution again
Export ==
    /\ pc = "export"
    /\ \/ /\ log' = log \o <<"check_missing", "analyze_data_distribution">>
          /\ call' = [fn |-> "analyze_data_distribution", column |-> column,
                      arg |-> 0]
          /\ result' = analyze_data_distribution(df, column)
       \/ UNCHANGED <<log, call, result>>
    /\ pc' = "done"
    /\ UNCHANGED <<raw, df, shown, column, before, valid>>

NextApp ==
    \/ ReadCsv
    \/ Validate
    \/ Preprocess
    \/ AppCheckMissing
    \/ AppDetectDuplicates
    \/ SelectColumn
    \/ AppDetectOutliers
    \/ AppCheckConsistency
    \/ AppAnalyzeDistribution
    \/ AppDetectTrends
    \/ Export

SpecApp == InitApp /\ [][NextApp]_vars

----------------------------------------------------------------------------
(* The engine called on a canonical table, its functions in any order *)

IsSorted(v) == \A i \in 1..(Len(v) - 1) : v[i] <= v[i + 1]

\* a canonical table of lo..hi records: preprocess_data of a valid upload
\* with the columns Date (day texts) and Close.  Uploads already in date
\* order yield every canonical table.
Canonical(t, lo, hi) ==
    \E n \in lo..hi :
        \E v \in {v \in Seqs(1..MaxDate, n) : IsSorted(v)}, c \in CloseCols(n) :
            t \in preprocess_data(
                    Frame(n, <<Col("Date", "object",
                                   [i \in 1..n |-> Str(v[i])])>>, c, <<>>))

\* the target columns a caller asks for: Close, and Volume, which no table has
TargetColumns == {"Close", "Volume"}

\* slider values the model draws: jump threshold in hundredths, IQR
\* multiplier in tenths, moving-average window in rows
JumpThresholds == {5, 10}
OutlierMultipliers == {15, 30}
TrendWindows == {2, 5}

InitTable(lo, hi) ==
    /\ Canonical(raw, lo, hi)
    /\ df = raw
    /\ pc = "idle"
    /\ log = <<>>
    /\ shown = <<>>
    /\ column = ""
    /\ call = NoCall
    /\ result = NoResult
    /\ before = raw
    /\ valid = <<TRUE, "Data validation successful">>

InitEngine == InitTable(1, MaxRows)

\* one call fn(df, c, arg) that returns r and leaves the caller's table as d2
Called(fn, c, arg, r, d2) ==
    /\ pc = "idle"
    /\ pc' = "returned"
    /\ call' = [fn |-> fn, column |-> c, arg |-> arg]
    /\ result' = r
    /\ before' = df
    /\ df' = d2
    /\ UNCHANGED <<raw, log, shown, column, valid>>

\* the caller has shown the result and drops it; the table stays
Discard ==
    /\ pc = "returned"
    /\ pc' = "idle"
    /\ call' = NoCall
    /\ result' = NoResult
    /\ before' = df
    /\ UNCHANGED <<raw, df, log, shown, column, valid>>

CallCheckMissing == Called("check_missing", "", 0, check_missing(df), df)

CallDetectDuplicates ==
    \E r \in detect_duplicates(df) : Called("detect_duplicates", "", 0, r, df)

\* app.py: the caller holds the IQR-multiplier slider value m, and calls
\* detect_outliers(df, column)
CallDetectOutliers ==
    \E c \in TargetColumns :
        LET r == detect_outliers(df, c)
        IN  \E m \in OutlierMultipliers : Called("detect_outliers", c, m, r, df)

CallDetectJumps ==
    \E c \in TargetColumns, thr \in JumpThresholds :
        \E r \in detect_jumps(df, c, thr) :
            Called("detect_jumps", c, thr, r, detect_jumps_df(df, c))

CallCheckConsistency ==
    \E c \in TargetColumns :
        Called("check_data_consistency", c, 0, check_data_consistency(df, c),
               df)

CallAnalyzeDistribution ==
    \E c \in TargetColumns :
        Called("analyze_data_distribution", c, 0,
               analyze_data_distribution(df, c), df)

CallDetectTrends ==
    \E c \in TargetColumns, w \in TrendWindows :
        Called("detect_trends", c, w, detect_trends(df, c, w), df)

NextEngine ==
    \/ CallCheckMissing
    \/ CallDetectDuplicates
    \/ CallDetectOutliers
    \/ CallDetectJumps
    \/ CallCheckConsistency
    \/ CallAnalyzeDistribution
    \/ CallDetectTrends
    \/ Discard

SpecEngine == InitEngine /\ [][NextEngine]_vars

\* the same calls on tables of OutlierRows records, where the IQR fences can
\* leave a value outside
InitOutliers == InitTable(OutlierRows, OutlierRows)

SpecOutliers == InitOutliers /\ [][NextEngine]_vars

----------------------------------------------------------------------------
(* preprocess_data applied again and again to a validated upload *)

InitPre ==
    /\ \E n \in 1..MaxRows :
         \E d \in DateTextCols(n, 1..MaxDate) \cup DateNumberCols(n),
            c \in CloseCols(n), x \in UploadNoteCols(n) :
             raw = Frame(n, d, c, x)
    /\ validate_dataframe(raw)[1]
    /\ df = raw
    /\ pc = "pre"
    /\ log = <<>>
    /\ shown = <<>>
    /\ column = ""
    /\ call = NoCall
    /\ result = NoResult
    /\ before = raw
    /\ valid = validate_dataframe(raw)

\* df = preprocess_data(df)
CallPreprocess ==
    /\ pc = "pre"
    /\ Len(log) < MaxPreprocessCalls
    /\ log' = Append(log, "preprocess_data")
    /\ before' = df
    /\ df' \in preprocess_data(df)
    /\ UNCHANGED <<raw, pc, shown, column, call, result, valid>>

NextPre == CallPreprocess

SpecPre == InitPre /\ [][NextPre]_vars

----------------------------------------------------------------------------
(* Claims *)

\* validate as the claim states it: the fourth check looks for a numeric
\* column other than Date
ClaimedValidate(t) ==
    IF NRows(t) = 0
    THEN <<FALSE, "The uploaded file is empty">>
    ELSE IF "Date" \notin Columns(t)
    THEN <<FALSE, "The file must contain a 'Date' column">>
    ELSE IF \E i \in DOMAIN Values(t, "Date") : ~Parseable(Values(t, "Date")[i])
    THEN <<FALSE, "The 'Date' column contains invalid date formats">>
    ELSE IF NumericColumns(t) \ {"Date"} = {}
    THEN <<FALSE, "The file must contain at least one numeric column">>
    ELSE <<TRUE, "Data validation successful">>

\* C1: validate_dataframe returns the message of the first failing check among
\* (1) at least one record, (2) a Date column, (3) every Date parseable,
\* (4) a numeric column other than Date, and success iff all four hold.
C1_ValidateFourChecks ==
    "validate_dataframe" \in Range(log) => valid = ClaimedValidate(raw)

\* C2: when validate_dataframe fails, its message is surfaced and the run
\* halts with nothing else invoked; an analysis function is only ever invoked
\* after validation succeeded and preprocess_data ran, on the preprocessed
\* table.
C2_AnalysisOnlyAfterValidation ==
    /\ ("validate_dataframe" \in Range(log) /\ ~valid[1]) =>
           /\ pc = "stopped"
           /\ log = <<"validate_dataframe">>
           /\ shown = <<validate_dataframe(raw)[2]>>
    /\ (\E i \in DOMAIN log : log[i] \in AnalysisFns) =>
           /\ \A i \in DOMAIN log : log[i] \in AnalysisFns => i > 2
           /\ log[1] = "validate_dataframe"
           /\ log[2] = "preprocess_data"
           /\ validate_dataframe(raw)[1]
           /\ df \in preprocess_data(raw)

\* a run that halted on a failed validation
C2_Witness ==
    /\ pc = "stopped"
    /\ log = <<"validate_dataframe">>
    /\ ~valid[1]
    /\ shown = <<"The file must contain a 'Date' column">>

\* C3: detect_jumps leaves the caller's table as it was, whatever it returns.
C3_DetectJumpsLeavesInputUnchanged ==
    (pc = "returned" /\ call.fn = "detect_jumps") => df = before

\* what a call returns when it is the first and only call on table t
FirstCallResults(c, t) ==
    CASE c.fn = "check_missing" -> {check_missing(t)}
      [] c.fn = "detect_duplicates" -> detect_duplicates(t)
      [] c.fn = "detect_outliers" -> {detect_outliers(t, c.column)}
      [] c.fn = "detect_jumps" -> detect_jumps(t, c.column, c.arg)
      [] c.fn = "check_data_consistency" ->
             {check_data_consistency(t, c.column)}
      [] c.fn = "analyze_data_distribution" ->
             {analyze_data_distribution(t, c.column)}
      [] c.fn = "detect_trends" -> {detect_trends(t, c.column, c.arg)}

\* C4: whatever calls came before, each check or statistic function returns
\* what it returns as the first and only call on the canonical table.
C4_NoOrderingDependency ==
    pc = "returned" => result \in FirstCallResults(call, raw)

\* app.py: if isinstance(result, str): st.info(...) else: st.warning(...)
Branch(r) == IF r.type = "str" THEN "st.info" ELSE "st.warning"

IsNoFindings(r) ==
    /\ r.type = "str"
    /\ r.text \in {"No duplicate dates found", "No outliers found in column",
                   "No significant price jumps detected in column"}

\* the results of fn on table t over the target columns the table has
ResultsOnExistingColumns(fn, t, arg) ==
    UNION {FirstCallResults([fn |-> fn, column |-> c, arg |-> arg], t) :
             c \in TargetColumns \cap Columns(t)}

\* C5: a caller that branches on the type of the result never takes, for a
\* column that is not there, the branch it takes for a check that found
\* nothing.
C5_NoFindingsDistinctFromColumnNotFound ==
    (/\ pc = "returned"
     /\ call.fn \in {"detect_outliers", "detect_jumps"}
     /\ call.column \notin Columns(before)) =>
        \A r \in ResultsOnExistingColumns(call.fn, before, call.arg) :
            IsNoFindings(r) => Branch(r) # Branch(result)

\* the row labels a result flags
FlaggedLabels(r) == IF r.type = "DataFrame" THEN Range(r.frame.index) ELSE {}

LabelsAt(t, mask) == {t.index[i] : i \in {i \in DOMAIN mask : mask[i]}}

\* C6: detect_outliers flags exactly the records strictly outside
\* [Q1 - m * IQR, Q3 + m * IQR] for the multiplier m the caller supplied.
C6_OutliersUseSuppliedMultiplier ==
    (/\ pc = "returned"
     /\ call.fn = "detect_outliers"
     /\ call.column \in Columns(before)) =>
        FlaggedLabels(result) =
            LabelsAt(before, OutlierMask(Values(before, call.column), call.arg))

\* row k of frame f holds, in each of its columns, the value of row i of t
SameRow(f, k, t, i) ==
    \A j \in DOMAIN f.cols :
        /\ f.cols[j].name \in Columns(t)
        /\ f.cols[j].vals[k] = Values(t, f.cols[j].name)[i]

\* frame f is in non-decreasing order of its Date column
DateAscending(f) ==
    \A k \in 1..(NRows(f) - 1) :
        ~Less(Values(f, "Date")[k + 1], Values(f, "Date")[k])

\* frame f holds exactly the rows S of table t, each once, with all of the
\* columns cs
HoldsRows(f, t, S, cs) ==
    /\ [j \in DOMAIN f.cols |-> f.cols[j].name] = cs
    /\ NRows(f) = Cardinality(S)
    /\ Range(f.index) = {t.index[i] : i \in S}
    /\ \A k \in 1..NRows(f) : \A i \in S :
           f.index[k] = t.index[i] => SameRow(f, k, t, i)

ClaimedJump(prev, cur, thr) ==
    IF prev = 0 THEN cur # 0
    ELSE 100 * AbsInt(cur - prev) > thr * AbsInt(prev)

C9_PreprocessIdempotent ==
    Len(log) >= 2 => df = before

\* C10: preprocess_data performs a stable sort: it returns the input records
\* in non-decreasing Date order with row identities 0..n-1, records of equal
\* Date in their input order.  (The call works on a copy, so the table it
\* was given, kept in before, is not changed by it.)
C10_PreprocessStableSort ==
    log # <<>> =>
        LET parsed == ParseDates(before)
            order == StableOrderOf(Values(parsed, "Date"),
                                   DOMAIN Values(parsed, "Date"))
        IN  /\ df = ResetIndex(TakeRows(parsed, order))
            /\ DateAscending(df)
            /\ df.index = RangeIndex(NRows(before))

=============================================================================
